---------------------------- MODULE Spec2Model ----------------------------
(***************************************************************************)
(* The method tracer of @sensenet/client-utils (src/src/Trace.ts).         *)
(*                                                                         *)
(* Trace.method replaces a method of an object by an interceptor and       *)
(* republishes "called / finished / errored" records to the observers      *)
(* subscribed to three observable stores kept per (object, method name).   *)
(* The file holds two variants of the class: the current one (lines        *)
(* 1-223, with isAsync and the isTraced marker) and an earlier one (lines  *)
(* 225-383).  Spec is the current variant, SpecEarlier the earlier one.    *)
(***************************************************************************)
EXTENDS Integers, Sequences, FiniteSets, Bags, TLC

(***************************************************************************)
(* Bounds of the model.                                                    *)
(***************************************************************************)
MaxHandles == 3         \* Trace.method requests in one behaviour of Spec
MaxHandlesEarlier == 2  \* Trace.method requests in one behaviour of SpecEarlier
MaxInflight == 1    \* asynchronous invocations awaiting settlement at once
MaxTime == 1        \* the clock values a "new Date()" can read: 0..MaxTime
MaxDepth == 2       \* interceptors entered by one invocation (nesting)

(***************************************************************************)
(* The objects a caller traces.  "P" is a prototype (or base class) that   *)
(* owns the methods; "A" is an instance (or derived class) that inherits   *)
(* them through its prototype chain, as the instances of MockClass in the  *)
(* tests do.                                                               *)
(***************************************************************************)
Objects == {"P", "A"}
Names == {"m1", "m2"}
TracedNames == {"m1"}   \* the methods Spec's trace requests name
Kinds == {"call", "finished", "error"}
Args == {1}              \* the arguments Spec's callers pass
Times == 0..MaxTime
NoTime == -1

Prototype(o) == IF o = "A" THEN "P" ELSE "none"

(***************************************************************************)
(* Function values.  An original method is known by its name; an           *)
(* interceptor closes over options.object and options.isAsync, carries the *)
(* name of options.method and (current variant) the isTraced marker.       *)
(***************************************************************************)
NoFn ==
    [fn |-> "none", name |-> "none", object |-> "none",
     isAsync |-> FALSE, isTraced |-> FALSE]

Original(m) ==
    [fn |-> "orig", name |-> m, object |-> "none",
     isAsync |-> FALSE, isTraced |-> FALSE]

overriddenMethod(o, m, async) ==
    [fn |-> "icpt", name |-> m, object |-> o,
     isAsync |-> async, isTraced |-> TRUE]

overriddenMethodEarlier(o, m) ==
    [fn |-> "icpt", name |-> m, object |-> o,
     isAsync |-> FALSE, isTraced |-> FALSE]

(***************************************************************************)
(* ObservableValue: the ordered observers of one store.  subscribe appends *)
(* an observer, disposing a subscription removes that observer, setValue   *)
(* calls the observers subscribed when the pass begins, in subscription    *)
(* order; a callback that throws ends the pass and the error propagates.   *)
(***************************************************************************)
NewObservableValue == << >>

subscribe(observers, h) == Append(observers, h)

unsubscribe(observers, h) == SelectSeq(observers, LAMBDA x : x # h)

\* One publish pass: n observers are called; threw says the n-th one threw.
setValue(observers) ==
    {[n |-> Len(observers), threw |-> FALSE]}
        \cup {[n |-> k, threw |-> TRUE] : k \in 1..Len(observers)}

NoMapping ==
    [has |-> FALSE, originalMethod |-> NoFn,
     callObservable |-> << >>, finishedObservable |-> << >>,
     errorObservable |-> << >>]

NewMapping(method) ==
    [has |-> TRUE, originalMethod |-> method,
     callObservable |-> NewObservableValue,
     finishedObservable |-> NewObservableValue,
     errorObservable |-> NewObservableValue]

NoObjectTrace == [has |-> FALSE, methodMappings |-> [n \in Names |-> NoMapping]]

NewObjectTrace == [has |-> TRUE, methodMappings |-> [n \in Names |-> NoMapping]]

VARIABLES
    slot,           \* slot[o][m]: the own property m of object o (NoFn: none)
    objectTraces,   \* Trace.objectTraces: object -> IObjectTrace
    handles,        \* the IDisposable handles Trace.method has returned
    inflight,       \* asynchronous invocations suspended at their await
    done,           \* the outcome the caller has just been handed, with its log
    asyncRequested  \* the (object, name) pairs requested with isAsync: true

vars == <<slot, objectTraces, handles, inflight, done, asyncRequested>>

(***************************************************************************)
(* object[name]: a property read follows the prototype chain; a property   *)
(* write (slot' = ...) always sets an own property.                        *)
(***************************************************************************)
RECURSIVE GetProp(_, _, _)
GetProp(s, o, m) ==
    IF o = "none" THEN NoFn
    ELSE IF s[o][m].fn # "none" THEN s[o][m]
    ELSE GetProp(s, Prototype(o), m)

Disposed == {h \in DOMAIN handles : handles[h].disposed}

(***************************************************************************)
(* Log entries of an invocation: a publish pass on a store ("pub") or a    *)
(* call of an original method ("orig").                                    *)
(***************************************************************************)
NoRec == [arguments |-> 0, startDateTime |-> NoTime, stamp |-> NoTime, value |-> "none"]

\* setValue(rec) on the store `kind` of the mapping of (o, m): the observers
\* subscribed when the pass began, how many were called, whether the last threw.
PubEntry(o, m, kind, rec, observers, c) ==
    [e |-> "pub", object |-> o, name |-> m, kind |-> kind, rec |-> rec,
     subs |-> observers, n |-> c.n, threw |-> c.threw,
     receiver |-> "none", result |-> "none", disposed |-> Disposed]

\* originalMethod.call(recv, ...args) and what it did (r: a return or a throw).
OrigEntry(m, recv, args, r) ==
    [e |-> "orig", object |-> "none", name |-> m, kind |-> "none",
     rec |-> [arguments |-> args, startDateTime |-> NoTime,
              stamp |-> NoTime, value |-> r.value],
     subs |-> << >>, n |-> 0, threw |-> FALSE,
     receiver |-> recv, result |-> r.shape, disposed |-> {}]

\* The await of callMethodAsync ends: the awaited result fulfilled ("return")
\* or rejected ("throw") with r.value.  The entry keeps the handles that were
\* already disposed when the invocation began.
AwaitEntry(m, args, r, disposedBefore) ==
    [e |-> "await", object |-> "none", name |-> m, kind |-> "none",
     rec |-> [arguments |-> args, startDateTime |-> NoTime,
              stamp |-> NoTime, value |-> r.value],
     subs |-> << >>, n |-> 0, threw |-> FALSE,
     receiver |-> "none", result |-> r.shape, disposed |-> disposedBefore]

(***************************************************************************)
(* What an original method can do when it is called: return a value,       *)
(* return a pending result (a promise "p"), or throw.                      *)
(***************************************************************************)
OriginalResults ==
    {[shape |-> "return", value |-> "v"],
     [shape |-> "return", value |-> "p"],
     [shape |-> "throw", value |-> "e"]}

\* How the await of a returned value ends: a pending result fulfils or
\* rejects, any other value is what the await evaluates to.
Settlements(returned) ==
    IF returned = "p"
    THEN {[shape |-> "return", value |-> "v"],
          [shape |-> "throw", value |-> "e"]}
    ELSE {[shape |-> "return", value |-> returned]}

getMethodTrace(o, m) == objectTraces[o].methodMappings[m]

traceStart(methodTrace, o, m, args) ==
    {[entry |-> PubEntry(o, m, "call",
                    [arguments |-> args, startDateTime |-> t,
                     stamp |-> NoTime, value |-> "none"],
                    methodTrace.callObservable, c),
      start |-> [arguments |-> args, startDateTime |-> t,
                 stamp |-> NoTime, value |-> "none"],
      threw |-> c.threw]
        : t \in Times, c \in setValue(methodTrace.callObservable)}

\* A traceFinished that reads the clock again for the start time.
traceFinishedRestamped(methodTrace, o, m, args, callTrace, returned) ==
    {[entry |-> PubEntry(o, m, "finished",
                    [arguments |-> args,
                     startDateTime |-> t,
                     stamp |-> t, value |-> returned],
                    methodTrace.finishedObservable, c),
      threw |-> c.threw]
        : t \in {x \in Times : x >= callTrace.startDateTime},
          c \in setValue(methodTrace.finishedObservable)}

\* A traceFinished that leaves the returned value out of the record.
traceFinishedWithoutValue(methodTrace, o, m, args, callTrace, returned) ==
    {[entry |-> PubEntry(o, m, "finished",
                    [arguments |-> args,
                     startDateTime |-> callTrace.startDateTime,
                     stamp |-> t, value |-> "none"],
                    methodTrace.finishedObservable, c),
      threw |-> c.threw]
        : t \in {x \in Times : x >= callTrace.startDateTime},
          c \in setValue(methodTrace.finishedObservable)}

traceFinished(methodTrace, o, m, args, callTrace, returned) ==
    {[entry |-> PubEntry(o, m, "finished",
                    [arguments |-> args,
                     startDateTime |-> callTrace.startDateTime,
                     stamp |-> t, value |-> returned],
                    methodTrace.finishedObservable, c),
      threw |-> c.threw]
        : t \in {x \in Times : x >= callTrace.startDateTime},
          c \in setValue(methodTrace.finishedObservable)}

traceError(methodTrace, o, m, args, callTrace, error) ==
    {[entry |-> PubEntry(o, m, "error",
                    [arguments |-> args,
                     startDateTime |-> callTrace.startDateTime,
                     stamp |-> t, value |-> error],
                    methodTrace.errorObservable, c),
      threw |-> c.threw]
        : t \in {x \in Times : x >= callTrace.startDateTime},
          c \in setValue(methodTrace.errorObservable)}

\* A catch block that publishes the error record and then returns normally.
CatchBlockSwallowing(methodTrace, o, m, args, start, pre, error) ==
    {[log |-> pre \o <<x.entry>>, shape |-> "return",
      value |-> "none", start |-> start]
        : x \in traceError(methodTrace, o, m, args, start, error)}

(***************************************************************************)
(* The catch block of callMethod / callMethodAsync: publish the error      *)
(* record, then rethrow (an onError listener that throws replaces it).     *)
(***************************************************************************)
CatchBlock(methodTrace, o, m, args, start, pre, error) ==
    {[log |-> pre \o <<x.entry>>, shape |-> "throw",
      value |-> IF x.threw THEN "le_error" ELSE error, start |-> start]
        : x \in traceError(methodTrace, o, m, args, start, error)}

(***************************************************************************)
(* The try block after the original has produced r (a return or a throw):  *)
(* traceFinished runs inside the try, so a throwing onFinished listener is *)
(* caught by the catch block as well.                                      *)
(***************************************************************************)
TryBlock(methodTrace, o, m, args, start, pre, r) ==
    IF r.shape = "return"
    THEN UNION {IF f.threw
                THEN CatchBlock(methodTrace, o, m, args, start,
                                pre \o <<f.entry>>, "le_finished")
                ELSE {[log |-> pre \o <<f.entry>>, shape |-> "return",
                       value |-> r.value, start |-> start]}
                    : f \in traceFinished(methodTrace, o, m, args, start, r.value)}
    ELSE CatchBlock(methodTrace, o, m, args, start, pre, r.value)

(***************************************************************************)
(* Calling a function value synchronously: an original runs with the given *)
(* receiver; a synchronous interceptor runs callMethod with the object it  *)
(* closed over.  The result is the set of possible runs.                   *)
(***************************************************************************)
RECURSIVE CallFn(_, _, _, _)
RECURSIVE callMethod(_, _, _, _)

CallFn(fn, recv, args, d) ==
    IF fn.fn = "orig"
    THEN {[log |-> <<OrigEntry(fn.name, recv, args, r)>>,
           shape |-> r.shape, value |-> r.value, start |-> NoRec]
               : r \in OriginalResults}
    ELSE IF fn.fn = "icpt" /\ ~fn.isAsync /\ d > 0
    THEN callMethod(fn.object, fn.name, args, d - 1)
    ELSE {}

\* A callMethod that calls the original before it publishes the call record.
callMethodOriginalFirst(o, m, args, d) ==
    LET methodTrace == getMethodTrace(o, m) IN
    UNION {UNION {TryBlock(methodTrace, o, m, args, s.start,
                           r.log \o <<s.entry>>,
                           [shape |-> r.shape, value |-> r.value])
                      : r \in CallFn(methodTrace.originalMethod, o, args, d)}
               : s \in {x \in traceStart(methodTrace, o, m, args) : ~x.threw}}

\* A callMethod whose traceStart sits inside the try block: the error of an
\* onCalled listener is caught like an error of the original.
callMethodStartInsideTry(o, m, args, d) ==
    LET methodTrace == getMethodTrace(o, m) IN
    UNION {IF s.threw
           THEN CatchBlock(methodTrace, o, m, args, s.start,
                           <<s.entry>>, "le_call")
           ELSE UNION {TryBlock(methodTrace, o, m, args, s.start,
                                <<s.entry>> \o r.log,
                                [shape |-> r.shape, value |-> r.value])
                           : r \in CallFn(methodTrace.originalMethod, o, args, d)}
               : s \in traceStart(methodTrace, o, m, args)}

callMethod(o, m, args, d) ==
    LET methodTrace == getMethodTrace(o, m) IN
    UNION {IF s.threw
           THEN {[log |-> <<s.entry>>, shape |-> "throw", value |-> "le_call",
                  start |-> s.start]}
           ELSE UNION {TryBlock(methodTrace, o, m, args, s.start,
                                <<s.entry>> \o r.log,
                                [shape |-> r.shape, value |-> r.value])
                           : r \in CallFn(methodTrace.originalMethod, o, args, d)}
               : s \in traceStart(methodTrace, o, m, args)}

\* A callMethodAsync without the await: the finished record is published with
\* whatever the original returned, before any pending result has settled.
callMethodAsyncWithoutAwait(o, m, args) ==
    LET methodTrace == getMethodTrace(o, m) IN
    UNION {IF s.threw
           THEN {[log |-> <<s.entry>>, shape |-> "reject", value |-> "le_call",
                  start |-> s.start]}
           ELSE UNION {{[log |-> x.log,
                         shape |-> IF x.shape = "return" THEN "fulfil" ELSE "reject",
                         value |-> x.value, start |-> s.start]
                           : x \in TryBlock(methodTrace, o, m, args, s.start,
                                            <<s.entry>> \o r.log,
                                            [shape |-> r.shape, value |-> r.value])}
                           : r \in CallFn(methodTrace.originalMethod, o, args, MaxDepth)}
               : s \in traceStart(methodTrace, o, m, args)}

(***************************************************************************)
(* callMethodAsync up to its await: the call record is published and the   *)
(* original is called synchronously.  A throw before the await rejects the *)
(* returned promise at once; otherwise the invocation is pending.          *)
(***************************************************************************)
callMethodAsync(o, m, args) ==
    LET methodTrace == getMethodTrace(o, m) IN
    UNION {IF s.threw
           THEN {[log |-> <<s.entry>>, shape |-> "reject", value |-> "le_call",
                  start |-> s.start]}
           ELSE UNION {IF r.shape = "throw"
                       THEN {[log |-> x.log, shape |-> "reject",
                              value |-> x.value, start |-> s.start]
                                : x \in CatchBlock(methodTrace, o, m, args, s.start,
                                                   <<s.entry>> \o r.log, r.value)}
                       ELSE {[log |-> <<s.entry>> \o r.log, shape |-> "pending",
                              value |-> "none", start |-> s.start]}
                           : r \in CallFn(methodTrace.originalMethod, o, args, MaxDepth)}
               : s \in traceStart(methodTrace, o, m, args)}

\* callMethodAsync after its await: the awaited result settled as r.
callMethodAsyncResume(x, r) ==
    {[log |-> y.log,
      shape |-> IF y.shape = "return" THEN "fulfil" ELSE "reject",
      value |-> y.value, start |-> x.start]
        : y \in TryBlock(getMethodTrace(x.object, x.name), x.object, x.name,
                         x.arguments, x.start,
                         <<AwaitEntry(x.name, x.arguments, r, x.disposed)>>, r)}

NoDone ==
    [target |-> "none", name |-> "none", arguments |-> 0, fn |-> NoFn,
     log |-> << >>, shape |-> "none", value |-> "none", start |-> NoRec,
     resumed |-> FALSE]

Init ==
    /\ slot = [o \in Objects |-> [m \in Names |->
                  IF o = "P" THEN Original(m) ELSE NoFn]]
    /\ objectTraces = [o \in Objects |-> NoObjectTrace]
    /\ handles = << >>
    /\ inflight = EmptyBag
    /\ done = NoDone
    /\ asyncRequested = {}

(***************************************************************************)
(* Subscribing the supplied callbacks and returning the handle             *)
(* (Trace.method, "add method mapping if needed" to the end).              *)
(***************************************************************************)
WithMapping(ot, o, m, method) ==
    IF ot[o].methodMappings[m].has THEN ot
    ELSE [ot EXCEPT ![o].methodMappings[m] = NewMapping(method)]

\* Subscribing the callbacks in front of the listeners already subscribed.
WithCallbacksInFront(ot, o, m, kinds, h) ==
    [ot EXCEPT ![o].methodMappings[m] =
        [@ EXCEPT
            !.callObservable =
                IF "call" \in kinds THEN <<h>> \o @ ELSE @,
            !.finishedObservable =
                IF "finished" \in kinds THEN <<h>> \o @ ELSE @,
            !.errorObservable =
                IF "error" \in kinds THEN <<h>> \o @ ELSE @]]

WithCallbacks(ot, o, m, kinds, h) ==
    [ot EXCEPT ![o].methodMappings[m] =
        [@ EXCEPT
            !.callObservable =
                IF "call" \in kinds THEN subscribe(@, h) ELSE @,
            !.finishedObservable =
                IF "finished" \in kinds THEN subscribe(@, h) ELSE @,
            !.errorObservable =
                IF "error" \in kinds THEN subscribe(@, h) ELSE @]]

\* Trace.method of the current variant, options.method being o[m].
TraceMethod(o, m, kinds, async) ==
    LET method == GetProp(slot, o, m)
        name == method.name
        h == Len(handles) + 1
        ot1 == IF objectTraces[o].has THEN objectTraces
               ELSE [objectTraces EXCEPT ![o] = NewObjectTrace]
        ot2 == WithMapping(ot1, o, name, method)
    IN  /\ done = NoDone
        /\ slot' = IF ~GetProp(slot, o, name).isTraced
                   THEN [slot EXCEPT ![o][name] = overriddenMethod(o, name, async)]
                   ELSE slot
        /\ objectTraces' = WithCallbacks(ot2, o, name, kinds, h)
        /\ handles' = Append(handles,
                [object |-> o, name |-> name, kinds |-> kinds, disposed |-> FALSE])
        /\ asyncRequested' = IF async THEN asyncRequested \cup {<<o, name>>}
                             ELSE asyncRequested
        /\ UNCHANGED <<inflight, done>>

\* Trace.method of the earlier variant.
TraceMethodEarlier(o, m, kinds) ==
    LET method == GetProp(slot, o, m)
        name == method.name
        h == Len(handles) + 1
        ot1 == IF objectTraces[o].has THEN objectTraces
               ELSE [objectTraces EXCEPT ![o] = NewObjectTrace]
        ot2 == WithMapping(ot1, o, name, method)
    IN  /\ done = NoDone
        /\ slot' = IF ~objectTraces[o].has
                   THEN [slot EXCEPT ![o][name] = overriddenMethodEarlier(o, name)]
                   ELSE slot
        /\ objectTraces' = WithCallbacks(ot2, o, name, kinds, h)
        /\ handles' = Append(handles,
                [object |-> o, name |-> name, kinds |-> kinds, disposed |-> FALSE])
        /\ UNCHANGED <<inflight, done, asyncRequested>>

\* What a call of a handle's dispose() did: the handle, the handles disposed
\* before the call, and the number of subscriptions the handle owns.
DisposeEntry(h) ==
    [e |-> "dispose", object |-> handles[h].object, name |-> handles[h].name,
     kind |-> "none", rec |-> NoRec, subs |-> <<h>>,
     n |-> Cardinality(handles[h].kinds), threw |-> FALSE,
     receiver |-> "none", result |-> "return", disposed |-> Disposed]

\* unsubscribe by position: the listener at the index found for h is cut out,
\* and when h is not found the index -1 cuts out the last listener.
unsubscribeSplicing(observers, h) ==
    IF \E i \in DOMAIN observers : observers[i] = h
    THEN SelectSeq(observers, LAMBDA x : x # h)
    ELSE SubSeq(observers, 1, Len(observers) - 1)

\* A dispose() whose subscriptions are removed by position.
DisposeSplicing(h) ==
    LET o == handles[h].object
        m == handles[h].name
        kinds == handles[h].kinds
    IN  /\ done = NoDone
        /\ h \in DOMAIN handles
        /\ objectTraces' = [objectTraces EXCEPT ![o].methodMappings[m] =
              [@ EXCEPT
                  !.callObservable =
                      IF "call" \in kinds THEN unsubscribeSplicing(@, h) ELSE @,
                  !.finishedObservable =
                      IF "finished" \in kinds THEN unsubscribeSplicing(@, h) ELSE @,
                  !.errorObservable =
                      IF "error" \in kinds THEN unsubscribeSplicing(@, h) ELSE @]]
        /\ handles' = [handles EXCEPT ![h].disposed = TRUE]
        /\ done' = [NoDone EXCEPT !.shape = "disposed", !.log = <<DisposeEntry(h)>>]
        /\ UNCHANGED <<slot, inflight, asyncRequested>>

\* A dispose() that names the dispose method of each subscription without
\* calling it: nothing is removed.
UnsubscribedNothing(ot, hs, h) == ot

\* The registry after the subscriptions held by handle h have been disposed.
Unsubscribed(ot, hs, h) ==
    LET kinds == hs[h].kinds IN
    [ot EXCEPT ![hs[h].object].methodMappings[hs[h].name] =
        [@ EXCEPT
            !.callObservable =
                IF "call" \in kinds THEN unsubscribe(@, h) ELSE @,
            !.finishedObservable =
                IF "finished" \in kinds THEN unsubscribe(@, h) ELSE @,
            !.errorObservable =
                IF "error" \in kinds THEN unsubscribe(@, h) ELSE @]]

\* A dispose() that puts the original method back on the object.
DisposeRestoring(h) ==
    LET o == handles[h].object
        m == handles[h].name
    IN  /\ done = NoDone
        /\ h \in DOMAIN handles
        /\ objectTraces' = Unsubscribed(objectTraces, handles, h)
        /\ handles' = [handles EXCEPT ![h].disposed = TRUE]
        /\ slot' = IF slot[o][m].fn = "icpt"
                   THEN [slot EXCEPT ![o][m] =
                            objectTraces[o].methodMappings[m].originalMethod]
                   ELSE slot
        /\ done' = [NoDone EXCEPT !.shape = "disposed", !.log = <<DisposeEntry(h)>>]
        /\ UNCHANGED <<inflight, asyncRequested>>

\* The handle's dispose(): every subscription it holds is disposed.  The
\* handle keeps no record of having been disposed, so a repeated call does
\* the same again.
Dispose(h) ==
    /\ done = NoDone
    /\ h \in DOMAIN handles
    /\ objectTraces' = Unsubscribed(objectTraces, handles, h)
    /\ handles' = [handles EXCEPT ![h].disposed = TRUE]
    /\ done' = [NoDone EXCEPT !.shape = "disposed", !.log = <<DisposeEntry(h)>>]
    /\ UNCHANGED <<slot, inflight, asyncRequested>>

Outcome(t, m, args, fn, r, resumed) ==
    [target |-> t, name |-> m, arguments |-> args, fn |-> fn,
     log |-> r.log, shape |-> r.shape, value |-> r.value, start |-> r.start,
     resumed |-> resumed]

\* A caller evaluates t.m(args) and the function found under m is an original
\* or a synchronous interceptor: it runs to its end.
Invoke(t, m, args) ==
    LET fn == GetProp(slot, t, m) IN
    /\ done = NoDone
    /\ ~(fn.fn = "icpt" /\ fn.isAsync)
    /\ \E r \in CallFn(fn, t, args, MaxDepth) :
          done' = Outcome(t, m, args, fn, r, FALSE)
    /\ UNCHANGED <<slot, objectTraces, handles, inflight, asyncRequested>>

\* A caller evaluates t.m(args) and the function found is an asynchronous
\* interceptor: it runs to its await and returns a pending promise, or the
\* promise it returns is rejected before the await.  At most `limit`
\* invocations are left awaiting at once.
InvokeAsync(t, m, args, limit) ==
    LET fn == GetProp(slot, t, m) IN
    /\ done = NoDone
    /\ fn.fn = "icpt" /\ fn.isAsync
    /\ \E r \in callMethodAsync(fn.object, fn.name, args) :
          /\ done' = Outcome(t, m, args, fn, r, FALSE)
          /\ IF r.shape = "pending"
             THEN /\ BagCardinality(inflight) < limit
                  /\ inflight' = inflight (+) SetToBag({
                         [target |-> t, object |-> fn.object, name |-> fn.name,
                          arguments |-> args, start |-> r.start,
                          returned |-> r.log[Len(r.log)].rec.value,
                          disposed |-> Disposed]})
             ELSE UNCHANGED inflight
    /\ UNCHANGED <<slot, objectTraces, handles, asyncRequested>>

\* The result awaited by a suspended invocation settles and it resumes.
Settle ==
    /\ done = NoDone
    /\ \E x \in BagToSet(inflight) : \E s \in Settlements(x.returned) :
        \E r \in callMethodAsyncResume(x, s) :
            /\ done' = Outcome(x.target, x.name, x.arguments,
                               overriddenMethod(x.object, x.name, TRUE), r, TRUE)
            /\ inflight' = inflight (-) SetToBag({x})
            /\ UNCHANGED <<slot, objectTraces, handles, asyncRequested>>

KindChoices == {Kinds, {"call"}, {}}

\* The caller takes the outcome of the invocation that completed.
TakeResult ==
    /\ done # NoDone
    /\ done' = NoDone
    /\ UNCHANGED <<slot, objectTraces, handles, inflight, asyncRequested>>

TraceRequest ==
    /\ Len(handles) < MaxHandles
    /\ \E o \in Objects, m \in TracedNames, k \in KindChoices, a \in BOOLEAN :
          TraceMethod(o, m, k, a)

TraceRequestEarlier ==
    /\ Len(handles) < MaxHandlesEarlier
    /\ \E o \in Objects, m \in Names, k \in KindChoices :
          TraceMethodEarlier(o, m, k)

DisposeHandle == \E h \in DOMAIN handles : Dispose(h)

Call == \E t \in Objects, m \in Names, a \in Args : Invoke(t, m, a)

CallAsync ==
    \E t \in Objects, m \in Names, a \in Args : InvokeAsync(t, m, a, MaxInflight)

Next == TraceRequest \/ DisposeHandle \/ Call \/ CallAsync \/ Settle \/ TakeResult

Spec == Init /\ [][Next]_vars

NextEarlier == TraceRequestEarlier \/ DisposeHandle \/ Call \/ TakeResult

SpecEarlier == Init /\ [][NextEarlier]_vars

(***************************************************************************)
(* Reading the log of the outcome the caller has just been handed.         *)
(***************************************************************************)
Log == done.log

ThroughInterceptor == done # NoDone /\ done.fn.fn = "icpt"

IsPub(i, kind) == Log[i].e = "pub" /\ Log[i].kind = kind

HandlesOf(o, m) ==
    {h \in DOMAIN handles : handles[h].object = o /\ handles[h].name = m}

\* How often the pass of entry x called the callback of handle h.
DeliveriesTo(x, h) == Cardinality({i \in 1..x.n : x.subs[i] = h})

\* The pass of entry x owes handle h a delivery: h asked for the event type
\* and had not been disposed when the pass began.
Owed(x, h) == x.kind \in handles[h].kinds /\ h \notin x.disposed

ListenerError(kind) ==
    CASE kind = "call" -> "le_call"
      [] kind = "finished" -> "le_finished"
      [] OTHER -> "le_error"

NoListenerThrew == \A i \in DOMAIN Log : ~Log[i].threw

(***************************************************************************)
(* C1.  After N >= 1 Trace.method requests for the same (o, m) exactly one *)
(* interceptor is installed on o under m and one method mapping exists for *)
(* (o, m); an invocation of o.m then publishes on the stores of (o, m) and *)
(* every pass delivers its record exactly once to each of the N observers  *)
(* that asked for it.  (Stated for the passes in which no listener throws: *)
(* a throwing listener ends its pass.)                                     *)
(***************************************************************************)
C1_IdempotentWrapping ==
    \A o \in Objects, m \in Names :
        HandlesOf(o, m) # {} =>
            /\ slot[o][m].fn = "icpt" /\ slot[o][m].object = o
            /\ getMethodTrace(o, m).has
            /\ (done # NoDone /\ done.target = o /\ done.name = m) =>
                  /\ ~done.resumed => IsPub(1, "call")
                  /\ \A i \in DOMAIN Log :
                        (Log[i].e = "pub" /\ ~Log[i].threw) =>
                            /\ Log[i].object = o /\ Log[i].name = m
                            /\ \A h \in HandlesOf(o, m) :
                                  Owed(Log[i], h) => DeliveriesTo(Log[i], h) = 1

(***************************************************************************)
(* C2.  Once a handle for (o, m) is disposed, a later invocation of o.m    *)
(* never calls a callback registered through it, every other observer of   *)
(* (o, m) whose handle is not disposed still receives every event of the   *)
(* invocation, and the call still returns the original's result.  (The     *)
(* last two are stated for invocations in which no listener throws.)       *)
(***************************************************************************)
C2_DisposalStopsDelivery ==
    \A h \in DOMAIN handles :
        (/\ handles[h].disposed
         /\ done # NoDone /\ ~done.resumed
         /\ done.target = handles[h].object /\ done.name = handles[h].name) =>
            /\ \A i \in DOMAIN Log :
                  (Log[i].e = "pub" /\ h \in Log[i].disposed) =>
                      DeliveriesTo(Log[i], h) = 0
            /\ NoListenerThrew =>
                  /\ \A i \in DOMAIN Log : \A g \in HandlesOf(done.target, done.name) :
                        (Log[i].e = "pub" /\ Owed(Log[i], g)) =>
                            DeliveriesTo(Log[i], g) = 1
                  /\ \A i \in DOMAIN Log :
                        (Log[i].e = "orig" /\ ~done.fn.isAsync) =>
                            /\ done.value = Log[i].rec.value
                            /\ done.shape = Log[i].result

(***************************************************************************)
(* C3.  The first request for a pair (o, m) replaces the live method of o  *)
(* by an interceptor, also when o already has a registry entry because     *)
(* another of its methods was traced before; hence an invocation of o.m    *)
(* publishes a call record to every observer registered for (o, m) and not *)
(* disposed.  (The delivery is stated for passes in which no listener      *)
(* throws.)                                                                *)
(***************************************************************************)
C3_FirstRequestInstalls ==
    \A o \in Objects, m \in Names :
        HandlesOf(o, m) # {} =>
            /\ slot[o][m].fn = "icpt" /\ slot[o][m].object = o
            /\ (done # NoDone /\ ~done.resumed /\ done.target = o /\ done.name = m) =>
                  /\ Log # << >> /\ IsPub(1, "call")
                  /\ Log[1].object = o /\ Log[1].name = m
                  /\ ~Log[1].threw =>
                        \A h \in HandlesOf(o, m) :
                            Owed(Log[1], h) => DeliveriesTo(Log[1], h) = 1

(***************************************************************************)
(* C4.  Within one invocation through an interceptor the call record is    *)
(* published first: before the original method is called and before the    *)
(* finished or error record of that invocation.  On the asynchronous path  *)
(* the part after the await publishes only finished or error records, and  *)
(* it belongs to an invocation whose call record and original call         *)
(* happened before it was suspended.                                       *)
(***************************************************************************)
C4_CallFirstInLog ==
    ThroughInterceptor =>
        IF done.resumed
        THEN /\ Log[1].e = "await"
             /\ \A i \in 2..Len(Log) :
                   /\ IsPub(i, "finished") \/ IsPub(i, "error")
                   /\ Log[i].rec.startDateTime = done.start.startDateTime
                   /\ Log[i].rec.arguments = done.start.arguments
        ELSE /\ IsPub(1, "call") /\ Log[1].rec = done.start
             /\ \A i \in 2..Len(Log) :
                   \/ Log[i].e = "orig"
                   \/ IsPub(i, "finished") \/ IsPub(i, "error")

C4_SuspendAndResume ==
    /\ (done'.resumed /\ ~done.resumed) =>
          \E x \in BagToSet(inflight) :
              /\ x.start = done'.start
              /\ CopiesIn(x, inflight') = CopiesIn(x, inflight) - 1
    /\ BagCardinality(inflight') > BagCardinality(inflight) =>
          /\ done'.shape = "pending" /\ ~done'.resumed
          /\ Len(done'.log) = 2
          /\ done'.log[1].e = "pub" /\ done'.log[1].kind = "call"
          /\ done'.log[1].rec = done'.start
          /\ done'.log[2].e = "orig"
          /\ \E x \in BagToSet(inflight') :
                /\ x.start = done'.start
                /\ CopiesIn(x, inflight') = CopiesIn(x, inflight) + 1

C4_CallRecordFirst == []C4_CallFirstInLog /\ [][C4_SuspendAndResume]_vars

\* An asynchronous invocation, suspended after its call record and its
\* original call, resumed on a rejection and delivered its error record.
C4_Witness ==
    /\ ThroughInterceptor /\ done.resumed /\ done.shape = "reject"
    /\ done.start # NoRec
    /\ \E i \in DOMAIN Log : IsPub(i, "error") /\ Log[i].n >= 1

(***************************************************************************)
(* C5.  Each invocation through an interceptor that has run to its end     *)
(* publishes either a finished record or an error record, never both: a    *)
(* finished record exactly when the original returned (or its result       *)
(* fulfilled), an error record exactly when it threw (or rejected), also   *)
(* when listeners throw.                                                   *)
(***************************************************************************)
C5_FinishedXorError ==
    (ThroughInterceptor /\ done.shape # "pending") =>
        LET F == {i \in DOMAIN Log : IsPub(i, "finished")}
            E == {i \in DOMAIN Log : IsPub(i, "error")}
            last == {i \in DOMAIN Log : Log[i].e \in {"orig", "await"}
                                          /\ \A j \in DOMAIN Log :
                                                Log[j].e \in {"orig", "await"} => j <= i}
        IN  \A i \in last :
                IF Log[i].result = "return"
                THEN F # {} /\ E = {} /\ \A j \in F : j > 1 \/ done.resumed
                ELSE E # {} /\ F = {}

\* The original threw (entry "orig") or the awaited result rejected ("await").
OrigThrew(i) == Log[i].e \in {"orig", "await"} /\ Log[i].result = "throw"

(***************************************************************************)
(* C6.  As claimed: when the original throws, or its result rejects, with  *)
(* e, the interceptor publishes an error record carrying e, publishes no   *)
(* finished record, and raises the same e to the caller.                   *)
(***************************************************************************)
C6_RethrowsSameValue ==
    ThroughInterceptor =>
        \A i \in DOMAIN Log : OrigThrew(i) =>
            /\ i < Len(Log) /\ IsPub(i + 1, "error")
            /\ Log[i + 1].rec.value = Log[i].rec.value
            /\ \A j \in DOMAIN Log : ~IsPub(j, "finished")
            /\ done.shape \in {"throw", "reject"}
            /\ done.value = Log[i].rec.value

(***************************************************************************)
(* C6, amended.  When the original throws, or its result rejects, with e,  *)
(* the interceptor publishes an error record carrying e and no finished    *)
(* record, and the call always ends in an error: the same e, unless an     *)
(* onError listener throws while the error record is published, and then   *)
(* that listener's error.                                                  *)
(***************************************************************************)
C6_RethrowsUnlessListenerThrows ==
    ThroughInterceptor =>
        \A i \in DOMAIN Log : OrigThrew(i) =>
            /\ i < Len(Log) /\ IsPub(i + 1, "error")
            /\ Log[i + 1].rec.value = Log[i].rec.value
            /\ \A j \in DOMAIN Log : ~IsPub(j, "finished")
            /\ done.shape \in {"throw", "reject"}
            /\ done.value = IF Log[i + 1].threw THEN ListenerError("error")
                            ELSE Log[i].rec.value

\* The original threw, an onError listener received the record, and the caller
\* caught the same value.
C6_Witness ==
    /\ ThroughInterceptor /\ ~done.fn.isAsync
    /\ done.shape = "throw" /\ done.value = "e"
    /\ \E i \in DOMAIN Log :
          /\ OrigThrew(i) /\ i < Len(Log)
          /\ IsPub(i + 1, "error") /\ Log[i + 1].n >= 1 /\ ~Log[i + 1].threw

(***************************************************************************)
(* C7.  For every value of isAsync an error of the traced method reaches   *)
(* the caller unchanged in shape and timing: a synchronous throw of the    *)
(* original is a synchronous throw of the wrapped call with the same       *)
(* value, a rejection is a rejection with the same reason, and a pending   *)
(* result the original returns to a synchronous interceptor is returned as *)
(* it is.  (Stated for invocations in which no listener throws.)           *)
(***************************************************************************)
C7_ErrorShapeUnchanged ==
    (ThroughInterceptor /\ NoListenerThrew) =>
        \A i \in DOMAIN Log :
            /\ (Log[i].e = "orig" /\ Log[i].result = "throw") =>
                  done.shape = "throw" /\ done.value = Log[i].rec.value
            /\ (Log[i].e = "await" /\ Log[i].result = "throw") =>
                  done.shape = "reject" /\ done.value = Log[i].rec.value
            /\ (Log[i].e = "orig" /\ Log[i].result = "return"
                    /\ Log[i].rec.value = "p" /\ ~done.fn.isAsync) =>
                  done.shape = "return" /\ done.value = "p"

(***************************************************************************)
(* C8.  As claimed: behind a synchronous interceptor, when the original    *)
(* returns v, a finished record carrying v is published before control     *)
(* returns to the caller and the wrapped call returns v.                   *)
(***************************************************************************)
C8_ReturnsOriginalValue ==
    (ThroughInterceptor /\ ~done.fn.isAsync) =>
        \A i \in DOMAIN Log :
            (Log[i].e = "orig" /\ Log[i].result = "return") =>
                /\ i < Len(Log) /\ IsPub(i + 1, "finished")
                /\ Log[i + 1].rec.value = Log[i].rec.value
                /\ done.shape = "return" /\ done.value = Log[i].rec.value

(***************************************************************************)
(* C8, amended.  Behind a synchronous interceptor, when the original       *)
(* returns v, a finished record carrying v is published before control     *)
(* returns to the caller; the wrapped call returns v unchanged unless an   *)
(* onFinished listener throws during that publication, and then the call   *)
(* ends in a throw.                                                        *)
(***************************************************************************)
C8_ReturnsUnlessListenerThrows ==
    (ThroughInterceptor /\ ~done.fn.isAsync) =>
        \A i \in DOMAIN Log :
            (Log[i].e = "orig" /\ Log[i].result = "return") =>
                /\ i < Len(Log) /\ IsPub(i + 1, "finished")
                /\ Log[i + 1].rec.value = Log[i].rec.value
                /\ IF Log[i + 1].threw
                   THEN done.shape = "throw"
                   ELSE done.shape = "return" /\ done.value = Log[i].rec.value

\* The original returned "v", an onFinished listener received the record and
\* the caller received "v".
C8_Witness ==
    /\ ThroughInterceptor /\ ~done.fn.isAsync
    /\ done.shape = "return" /\ done.value = "v"
    /\ \E i \in DOMAIN Log :
          /\ Log[i].e = "orig" /\ Log[i].rec.value = "v" /\ i < Len(Log)
          /\ IsPub(i + 1, "finished") /\ Log[i + 1].n >= 1

\* What C9 says of one invocation: no finished record before the awaited
\* result has settled; the finished record carries the fulfilled value, never
\* the pending result; the returned promise fulfils with that value, after the
\* finished record.
FinishedAfterSettlement ==
    /\ ~done.resumed => \A i \in DOMAIN Log : ~IsPub(i, "finished")
    /\ done.resumed =>
          /\ Log[1].e = "await"
          /\ \A i \in DOMAIN Log : IsPub(i, "finished") =>
                /\ i > 1 /\ Log[1].result = "return"
                /\ Log[i].rec.value = Log[1].rec.value
                /\ Log[i].rec.value # "p"
    /\ done.shape = "fulfil" =>
          /\ done.resumed
          /\ \E i \in DOMAIN Log :
                IsPub(i, "finished") /\ done.value = Log[i].rec.value
    /\ done.shape # "return"

(***************************************************************************)
(* C9.  As claimed: for a pair (o, m) that was traced with isAsync true,   *)
(* an invocation through the interceptor of (o, m) publishes the finished  *)
(* record only after the original's pending result has settled, with the   *)
(* fulfilled value, and the returned promise fulfils with that value after *)
(* the finished record.                                                    *)
(***************************************************************************)
C9_TracedAsyncFinishedAfterSettlement ==
    \A p \in asyncRequested :
        (ThroughInterceptor /\ done.fn.object = p[1] /\ done.fn.name = p[2]) =>
            FinishedAfterSettlement

(***************************************************************************)
(* C9, amended.  When the interceptor installed for (o, m) is the          *)
(* asynchronous one (the request that installed it had isAsync true), an   *)
(* invocation publishes the finished record only after the original's      *)
(* pending result has settled, with the fulfilled value, and the returned  *)
(* promise fulfils with that value after the finished record.              *)
(***************************************************************************)
C9_AsyncInterceptorFinishedAfterSettlement ==
    (ThroughInterceptor /\ done.fn.isAsync) => FinishedAfterSettlement

\* An asynchronous invocation whose original returned a pending result: after
\* it fulfilled with "v" an onFinished listener received "v" and the returned
\* promise fulfilled with "v".
C9_Witness ==
    /\ ThroughInterceptor /\ done.fn.isAsync /\ done.resumed
    /\ done.shape = "fulfil" /\ done.value = "v"
    /\ Log[1].e = "await"
    /\ \E i \in DOMAIN Log :
          IsPub(i, "finished") /\ Log[i].n >= 1 /\ Log[i].rec.value = "v"

(***************************************************************************)
(* C10.  An error thrown by a listener during a publish pass is not caught *)
(* by the tracer: nothing more is published after that pass, and the       *)
(* listener's error reaches the caller, as a throw behind a synchronous    *)
(* interceptor and as a rejection behind an asynchronous one.              *)
(***************************************************************************)
C10_ListenerErrorPropagates ==
    ThroughInterceptor =>
        \A i \in DOMAIN Log :
            (Log[i].e = "pub" /\ Log[i].threw) =>
                /\ i = Len(Log)
                /\ done.shape = IF done.fn.isAsync THEN "reject" ELSE "throw"
                /\ done.value = ListenerError(Log[i].kind)

\* The three stores of the mapping mp, by event type.
Store(mp, kind) ==
    CASE kind = "call" -> mp.callObservable
      [] kind = "finished" -> mp.finishedObservable
      [] OTHER -> mp.errorObservable

\* The step is a call of dispose() on handle h.
IsDisposeOf(h) ==
    /\ done = NoDone /\ done'.shape = "disposed"
    /\ done'.log[1].subs = <<h>>

(***************************************************************************)
(* C11.  A first dispose() of a handle removes each subscription the       *)
(* handle owns, and nothing else: in every store of its (object, method)   *)
(* the handle's listener is gone, one listener fewer where it owned a      *)
(* subscription, the other listeners kept in their order.  A repeated      *)
(* dispose() of the same handle ends normally and changes nothing: the     *)
(* listener sequences of all stores, the registry, the installed methods   *)
(* and the handles are as before.                                          *)
(***************************************************************************)
C11_DisposeStep ==
    \A h \in DOMAIN handles : IsDisposeOf(h) =>
        /\ done'.log[1].result = "return"
        /\ slot' = slot /\ inflight' = inflight
        /\ IF handles[h].disposed
           THEN objectTraces' = objectTraces /\ handles' = handles
           ELSE /\ handles' = [handles EXCEPT ![h].disposed = TRUE]
                /\ \A o \in Objects, m \in Names :
                      LET old == objectTraces[o].methodMappings[m]
                          new == objectTraces'[o].methodMappings[m]
                      IN  /\ new.has = old.has
                          /\ new.originalMethod = old.originalMethod
                          /\ \A k \in Kinds :
                                /\ Store(new, k) =
                                      SelectSeq(Store(old, k), LAMBDA x : x # h)
                                /\ Len(Store(old, k)) - Len(Store(new, k)) =
                                      IF /\ o = handles[h].object
                                         /\ m = handles[h].name
                                         /\ k \in handles[h].kinds
                                      THEN 1 ELSE 0

C11_DisposeIdempotent == [][C11_DisposeStep]_vars

\* A handle that owns three subscriptions has been disposed a second time
\* while another observer is still subscribed to the same stores.
C11_Witness ==
    /\ done.shape = "disposed"
    /\ LET x == done.log[1]
           h == x.subs[1]
       IN  /\ h \in x.disposed /\ x.n = 3
           /\ \E g \in DOMAIN handles :
                 /\ g # h /\ ~handles[g].disposed
                 /\ handles[g].object = x.object /\ handles[g].name = x.name
                 /\ handles[g].kinds = Kinds


\* Handles of the invoked (object, method) that were disposed while the
\* resumed invocation was awaiting: not yet disposed when it began.
DisposedInFlight ==
    {h \in HandlesOf(done.target, done.name) :
        handles[h].disposed /\ h \notin Log[1].disposed}

(***************************************************************************)
(* C12.  A handle of the invoked (object, method) disposed while an        *)
(* asynchronous invocation is awaiting does not abort it: when the awaited *)
(* result settles, the returned promise settles the same way with the same *)
(* value, the finished or error record is published, no disposed observer  *)
(* of the invoked (object, method) receives it and every observer of that  *)
(* pair still subscribed for the event type receives it once.              *)
(* (Stated for invocations in which no listener throws.)                   *)
(***************************************************************************)
C12_DisposeInFlight ==
    (done # NoDone /\ done.resumed /\ NoListenerThrew /\ DisposedInFlight # {}) =>
        /\ done.shape = IF Log[1].result = "return" THEN "fulfil" ELSE "reject"
        /\ done.value = Log[1].rec.value
        /\ Len(Log) = 2
        /\ IsPub(2, IF Log[1].result = "return" THEN "finished" ELSE "error")
        /\ \A g \in HandlesOf(done.target, done.name) :
              /\ handles[g].disposed => DeliveriesTo(Log[2], g) = 0
              /\ Owed(Log[2], g) => DeliveriesTo(Log[2], g) = 1


(***************************************************************************)
(* C13.  Every publish pass on a store of (o, m) takes the listeners       *)
(* subscribed at that moment, which are the callbacks of the undisposed    *)
(* handles of (o, m) that asked for the event type, and calls them in the  *)
(* order in which they were subscribed, the order of the Trace.method      *)
(* requests: L1 before L2 before L3.  The pass calls all of them unless    *)
(* one throws, and then those before it and it.                            *)
(***************************************************************************)
C13_SubscriptionOrder ==
    done.shape # "disposed" =>
        \A i \in DOMAIN Log : Log[i].e = "pub" =>
            LET x == Log[i] IN
            /\ \A j, k \in DOMAIN x.subs : j < k => x.subs[j] < x.subs[k]
            /\ {x.subs[j] : j \in DOMAIN x.subs} =
                  {g \in HandlesOf(x.object, x.name) : Owed(x, g)}
            /\ x.n <= Len(x.subs)
            /\ IF x.threw THEN x.n >= 1 ELSE x.n = Len(x.subs)

\* Three observers of the same method, registered one after the other, were
\* all called by one finished pass.
C13_Witness ==
    /\ ThroughInterceptor
    /\ \E i \in DOMAIN Log :
          IsPub(i, "finished") /\ Log[i].subs = <<1, 2, 3>> /\ Log[i].n = 3



(***************************************************************************)
(* Callbacks that dispose handles.  A callback may call dispose() on its   *)
(* own handle or on another one while a publish pass is running.  The pass *)
(* goes through the listeners that were subscribed when it began; what a   *)
(* callback disposes is gone from the store for every later pass.          *)
(***************************************************************************)
MaxHandlesReentrant == 2  \* Trace.method requests in one behaviour of SpecReentrant

\* What one callback does when it is called: nothing (0) or dispose handle g.
ListenerActs(hs) == {0} \cup DOMAIN hs

DisposedIn(hs) == {h \in DOMAIN hs : hs[h].disposed}

\* The pass over snapshot snap from listener i on; st holds the registry and
\* the handles as the callbacks called so far have left them, and what each
\* of them did.
RECURSIVE passFrom(_, _, _)
passFrom(snap, i, st) ==
    IF i > Len(snap) THEN {st}
    ELSE UNION {passFrom(snap, i + 1,
                    IF a = 0
                    THEN [st EXCEPT !.acts = Append(@, 0)]
                    ELSE [ot |-> Unsubscribed(st.ot, st.hs, a),
                          hs |-> [st.hs EXCEPT ![a].disposed = TRUE],
                          acts |-> Append(st.acts, a)])
                    : a \in ListenerActs(st.hs)}

\* The log entry of a pass: the handles disposed when it began and what each
\* callback did.
PassEntry(entry, hs, acts) ==
    ("disposed" :> DisposedIn(hs)) @@ ("acts" :> acts) @@ entry

\* callMethod when no callback throws and callbacks may dispose handles.
callMethodDisposing(o, m, args) ==
    LET st0 == [ot |-> objectTraces, hs |-> handles, acts |-> << >>] IN
    UNION {UNION {UNION {
        LET mt1 == p1.ot[o].methodMappings[m]
            second == IF r.shape = "return"
                      THEN traceFinished(mt1, o, m, args, s.start, r.value)
                      ELSE traceError(mt1, o, m, args, s.start, r.value)
        IN  UNION {{[log |-> <<PassEntry(s.entry, st0.hs, p1.acts),
                               OrigEntry(m, o, args, r),
                               PassEntry(f.entry, p1.hs, p2.acts)>>,
                     shape |-> r.shape, value |-> r.value, start |-> s.start,
                     ot |-> p2.ot, hs |-> p2.hs]
                        : p2 \in passFrom(f.entry.subs, 1,
                                          [p1 EXCEPT !.acts = << >>])}
                    : f \in {x \in second : ~x.threw}}
            : r \in OriginalResults}
          : p1 \in passFrom(s.entry.subs, 1, st0)}
        : s \in {x \in traceStart(st0.ot[o].methodMappings[m], o, m, args)
                    : ~x.threw}}

InvokeDisposing(t, m, args) ==
    LET fn == GetProp(slot, t, m) IN
    /\ done = NoDone
    /\ fn.fn = "icpt" /\ ~fn.isAsync
    /\ \E r \in callMethodDisposing(fn.object, fn.name, args) :
          /\ done' = Outcome(t, m, args, fn, r, FALSE)
          /\ objectTraces' = r.ot
          /\ handles' = r.hs
    /\ UNCHANGED <<slot, inflight, asyncRequested>>

TraceRequestReentrant ==
    /\ Len(handles) < MaxHandlesReentrant
    /\ \E k \in KindChoices : TraceMethod("P", "m1", k, FALSE)

CallDisposing == \E a \in Args : InvokeDisposing("P", "m1", a)

NextReentrant == TraceRequestReentrant \/ CallDisposing \/ TakeResult

SpecReentrant == Init /\ [][NextReentrant]_vars

(***************************************************************************)
(* C14.  A handle removed while a publish pass is running: every listener  *)
(* that was subscribed when the pass began is still called in that pass,   *)
(* in subscription order, whatever the callbacks before it disposed; and a *)
(* pass calls no listener of a handle that was disposed before it began,   *)
(* be it by a callback of an earlier pass.                                 *)
(***************************************************************************)
C14_SnapshotPass ==
    done # NoDone =>
        \A i \in DOMAIN Log : Log[i].e = "pub" =>
            LET x == Log[i] IN
            /\ x.n = Len(x.subs) /\ Len(x.acts) = x.n
            /\ \A j, k \in DOMAIN x.subs : j < k => x.subs[j] < x.subs[k]
            /\ {x.subs[j] : j \in DOMAIN x.subs}
                   = {g \in HandlesOf(x.object, x.name) : Owed(x, g)}
            /\ \A j \in DOMAIN x.acts : x.acts[j] # 0 =>
                  /\ \A k \in DOMAIN Log :
                        (k > i /\ Log[k].e = "pub") =>
                            /\ x.acts[j] \in Log[k].disposed
                            /\ DeliveriesTo(Log[k], x.acts[j]) = 0
                  /\ handles[x.acts[j]].disposed
            /\ x.disposed \subseteq Disposed

\* The first callback of a finished pass disposes the handle of the second,
\* which is called all the same; the call pass had reached both.
C14_Witness ==
    /\ done # NoDone /\ Len(Log) = 3
    /\ IsPub(1, "call") /\ Log[1].subs = <<1, 2>>
    /\ IsPub(3, "finished") /\ Log[3].subs = <<1, 2>> /\ Log[3].n = 2
    /\ Log[3].acts = <<2, 0>>


(***************************************************************************)
(* using(resource, callback) and usingAsync(resource, callback).  The      *)
(* resource is a disposable; here it is a handle returned by Trace.method. *)
(* The callback returns a value, returns a pending result or throws.       *)
(***************************************************************************)
MaxResources == 2     \* disposables acquired in one behaviour of SpecUsing

\* What the callback handed to a helper did with resource h.
CallbackEntry(h, r) ==
    [e |-> "callback", object |-> "none", name |-> "none", kind |-> "none",
     rec |-> [arguments |-> h, startDateTime |-> NoTime,
              stamp |-> NoTime, value |-> r.value],
     subs |-> <<h>>, n |-> 0, threw |-> FALSE,
     receiver |-> "none", result |-> r.shape, disposed |-> Disposed]

\* The outcome of a helper call on resource h.
HelperOutcome(helper, h, log, shape, value, resumed) ==
    [NoDone EXCEPT !.name = helper, !.arguments = h, !.log = log,
                   !.shape = shape, !.value = value, !.resumed = resumed]

\* A using that disposes the resource after a normal return only.
UsingWithoutFinally(h, r) ==
    /\ done = NoDone
    /\ h \in DOMAIN handles
    /\ IF r.shape = "return"
       THEN /\ done' = HelperOutcome("using", h,
                           <<CallbackEntry(h, r), DisposeEntry(h)>>,
                           r.shape, r.value, FALSE)
            /\ objectTraces' = Unsubscribed(objectTraces, handles, h)
            /\ handles' = [handles EXCEPT ![h].disposed = TRUE]
       ELSE /\ done' = HelperOutcome("using", h, <<CallbackEntry(h, r)>>,
                           r.shape, r.value, FALSE)
            /\ UNCHANGED <<objectTraces, handles>>
    /\ UNCHANGED <<slot, inflight, asyncRequested>>

\* using: the callback runs, the resource is disposed, and the callback's
\* return value is returned or its error thrown.
Using(h, r) ==
    /\ done = NoDone
    /\ h \in DOMAIN handles
    /\ done' = HelperOutcome("using", h,
                   <<CallbackEntry(h, r), DisposeEntry(h)>>,
                   r.shape, r.value, FALSE)
    /\ objectTraces' = Unsubscribed(objectTraces, handles, h)
    /\ handles' = [handles EXCEPT ![h].disposed = TRUE]
    /\ UNCHANGED <<slot, inflight, asyncRequested>>

\* usingAsync up to its await: a callback that returns a pending result
\* leaves the helper awaiting with the resource undisposed; one that returns
\* a value or throws lets it dispose the resource and settle.
UsingAsync(h, r) ==
    /\ done = NoDone
    /\ h \in DOMAIN handles
    /\ IF r.value = "p"
       THEN /\ BagCardinality(inflight) < MaxInflight
            /\ inflight' = inflight (+) SetToBag({
                   [target |-> "none", object |-> "none", name |-> "usingAsync",
                    arguments |-> h, start |-> NoRec, returned |-> r.value,
                    disposed |-> Disposed]})
            /\ done' = HelperOutcome("usingAsync", h, <<CallbackEntry(h, r)>>,
                           "pending", "none", FALSE)
            /\ UNCHANGED <<objectTraces, handles>>
       ELSE /\ done' = HelperOutcome("usingAsync", h,
                           <<CallbackEntry(h, r), DisposeEntry(h)>>,
                           IF r.shape = "return" THEN "fulfil" ELSE "reject",
                           r.value, FALSE)
            /\ objectTraces' = Unsubscribed(objectTraces, handles, h)
            /\ handles' = [handles EXCEPT ![h].disposed = TRUE]
            /\ UNCHANGED inflight
    /\ UNCHANGED <<slot, asyncRequested>>

\* The pending result a usingAsync awaits settles: the resource is disposed
\* and the helper's promise settles the same way.
UsingAsyncResume(x, s) ==
    LET h == x.arguments IN
    /\ done = NoDone
    /\ x.name = "usingAsync"
    /\ done' = HelperOutcome("usingAsync", h,
                   <<AwaitEntry("usingAsync", h, s, x.disposed), DisposeEntry(h)>>,
                   IF s.shape = "return" THEN "fulfil" ELSE "reject",
                   s.value, TRUE)
    /\ objectTraces' = Unsubscribed(objectTraces, handles, h)
    /\ handles' = [handles EXCEPT ![h].disposed = TRUE]
    /\ inflight' = inflight (-) SetToBag({x})
    /\ UNCHANGED <<slot, asyncRequested>>

AcquireResource ==
    /\ Len(handles) < MaxResources
    /\ \E k \in KindChoices : TraceMethod("P", "m1", k, FALSE)

CallUsing == \E h \in DOMAIN handles, r \in OriginalResults : Using(h, r)

CallUsingAsync == \E h \in DOMAIN handles, r \in OriginalResults : UsingAsync(h, r)

SettleUsing ==
    \E x \in BagToSet(inflight) : \E s \in Settlements(x.returned) :
        UsingAsyncResume(x, s)

NextUsing ==
    AcquireResource \/ CallUsing \/ CallUsingAsync \/ SettleUsing \/ TakeResult

SpecUsing == Init /\ [][NextUsing]_vars

\* The positions of the dispose() calls in the log of the helper call.
DisposeCalls == {i \in DOMAIN Log : Log[i].e = "dispose"}

(***************************************************************************)
(* C15.  A call of using or usingAsync that has produced its result (a     *)
(* return value, a thrown error, a fulfilled or rejected promise) has      *)
(* called dispose() of its resource exactly once, after the callback ended *)
(* (returned, threw, or its pending result settled) and before the result, *)
(* which is the callback's; the resource is then disposed.  A usingAsync   *)
(* that is still awaiting has not called dispose().                        *)
(***************************************************************************)
C15_DisposedOnceBeforeResult ==
    done.name \in {"using", "usingAsync"} =>
        LET h == done.arguments IN
        IF done.shape = "pending"
        THEN DisposeCalls = {} /\ Log[1].e = "callback" /\ Log[1].rec.value = "p"
        ELSE /\ Len(Log) = 2
             /\ DisposeCalls = {2} /\ Log[2].subs = <<h>>
             /\ Log[1].e = IF done.resumed THEN "await" ELSE "callback"
             /\ handles[h].disposed
             /\ \A k \in Kinds :
                   \A i \in DOMAIN Store(objectTraces[handles[h].object]
                                             .methodMappings[handles[h].name], k) :
                       Store(objectTraces[handles[h].object]
                                 .methodMappings[handles[h].name], k)[i] # h
             /\ done.value = Log[1].rec.value
             /\ done.shape =
                   IF done.name = "using"
                   THEN Log[1].result
                   ELSE IF Log[1].result = "return" THEN "fulfil" ELSE "reject"

\* The pending result of a usingAsync callback was rejected; its resource,
\* which owned three subscriptions and was not disposed before, is disposed.
C15_Witness ==
    /\ done.name = "usingAsync" /\ done.resumed /\ done.shape = "reject"
    /\ Log[2].e = "dispose" /\ Log[2].n = 3
    /\ done.arguments \notin Log[2].disposed


(***************************************************************************)
(* C16.  A call t.m(args) on a traced object t (one with an entry in the   *)
(* registry) that goes through an interceptor runs the original method     *)
(* with receiver t, and when the original returns and no listener throws,  *)
(* the call returns the value the original returned.                       *)
(***************************************************************************)
C16_ReceiverIsTracedObject ==
    (ThroughInterceptor /\ objectTraces[done.target].has) =>
        \A i \in DOMAIN Log : Log[i].e = "orig" =>
            /\ Log[i].receiver = done.target
            /\ (Log[i].result = "return" /\ NoListenerThrew
                    /\ done.shape \in {"return", "fulfil"})
                  => done.value = Log[i].rec.value

\* The same for calls that reach the interceptor installed on the target
\* itself.
C16_OwnInterceptorReceiver ==
    (ThroughInterceptor /\ done.target = done.fn.object) =>
        C16_ReceiverIsTracedObject


(***************************************************************************)
(* Interleaved invocations: callers pass different arguments and several   *)
(* asynchronous invocations of P.m1 await at once and settle in any order. *)
(***************************************************************************)
MaxInflightInterleaved == 2  \* invocations awaiting at once in SpecInterleaved
MaxHandlesInterleaved == 2   \* Trace.method requests in SpecInterleaved
ArgsInterleaved == {1, 2}

TraceRequestInterleaved ==
    /\ Len(handles) < MaxHandlesInterleaved
    /\ \E k \in KindChoices, a \in BOOLEAN : TraceMethod("P", "m1", k, a)

CallInterleaved == \E a \in ArgsInterleaved : Invoke("P", "m1", a)

CallAsyncInterleaved ==
    \E a \in ArgsInterleaved : InvokeAsync("P", "m1", a, MaxInflightInterleaved)

NextInterleaved ==
    \/ TraceRequestInterleaved
    \/ CallInterleaved
    \/ CallAsyncInterleaved
    \/ Settle
    \/ TakeResult

SpecInterleaved == Init /\ [][NextInterleaved]_vars

\* Every record published in the log just handed over carries the caller's
\* arguments and the start time of the call record.
C17_SameWithinRun ==
    (ThroughInterceptor /\ ~done.resumed) =>
        /\ IsPub(1, "call") /\ Log[1].rec.arguments = done.arguments
        /\ \A i \in DOMAIN Log : Log[i].e = "pub" =>
              /\ Log[i].rec.arguments = done.arguments
              /\ Log[i].rec.startDateTime = Log[1].rec.startDateTime

\* An invocation that suspends leaves its own call record with the awaiting
\* invocations; the one that resumes publishes its own arguments and start.
C17_AcrossAwait ==
    (done = NoDone /\ done' # NoDone /\ done'.fn.fn = "icpt") =>
        IF done'.resumed
        THEN \E x \in BagToSet(inflight) :
                /\ inflight' = inflight (-) SetToBag({x})
                /\ Len(done'.log) >= 2
                /\ \A i \in 2..Len(done'.log) :
                      /\ done'.log[i].e = "pub"
                      /\ done'.log[i].kind \in {"finished", "error"}
                      /\ done'.log[i].rec.arguments = x.arguments
                      /\ done'.log[i].rec.startDateTime = x.start.startDateTime
        ELSE IF done'.shape = "pending"
        THEN \E x \in BagToSet(inflight') :
                /\ inflight' = inflight (+) SetToBag({x})
                /\ x.arguments = done'.arguments
                /\ x.start = done'.log[1].rec
        ELSE inflight' = inflight

(***************************************************************************)
(* C17.  The call record of an invocation and its finished or error record *)
(* carry the same arguments, those the caller passed, and the same start   *)
(* time; also when several asynchronous invocations of the same method are *)
(* awaiting and settle in any order, the record published when one of them *)
(* resumes carries the arguments and start time of that invocation's call  *)
(* record.                                                                 *)
(***************************************************************************)
C17_RecordsOfOneInvocation == []C17_SameWithinRun /\ [][C17_AcrossAwait]_vars

\* The invocation with argument 2 that began at time 1 has resumed and its
\* finished record was delivered, while the invocation with argument 1 that
\* began at time 0 is still awaiting.
C17_Witness ==
    /\ done # NoDone /\ done.resumed /\ IsPub(2, "finished")
    /\ Log[2].n >= 1
    /\ Log[2].rec.arguments = 2 /\ Log[2].rec.startDateTime = 1
    /\ \E x \in BagToSet(inflight) :
          x.arguments = 1 /\ x.start.startDateTime = 0


(***************************************************************************)
(* C18.  In every reachable state the originalMethod of every method       *)
(* mapping is an un-wrapped method: it is not an interceptor and carries   *)
(* no isTraced mark.                                                       *)
(***************************************************************************)
C18_OriginalNeverInterceptor ==
    \A o \in Objects, m \in Names :
        objectTraces[o].methodMappings[m].has =>
            /\ objectTraces[o].methodMappings[m].originalMethod.fn = "orig"
            /\ ~objectTraces[o].methodMappings[m].originalMethod.isTraced

\* The same for the mappings of objects that hold the method themselves.
C18_OwnMethodOriginal ==
    \A m \in Names :
        objectTraces["P"].methodMappings[m].has =>
            /\ objectTraces["P"].methodMappings[m].originalMethod.fn = "orig"
            /\ ~objectTraces["P"].methodMappings[m].originalMethod.isTraced


\* A dispose() leaves the installed methods, the registry entries, the
\* mappings and their originalMethod as they are; only listeners of the
\* handle's own stores go.
C19_DisposeFrame ==
    \A h \in DOMAIN handles : IsDisposeOf(h) =>
        /\ slot' = slot
        /\ inflight' = inflight /\ asyncRequested' = asyncRequested
        /\ \A o \in Objects :
              /\ objectTraces'[o].has = objectTraces[o].has
              /\ \A m \in Names :
                    LET old == objectTraces[o].methodMappings[m]
                        new == objectTraces'[o].methodMappings[m]
                    IN  /\ new.has = old.has
                        /\ new.originalMethod = old.originalMethod
                        /\ (o # handles[h].object \/ m # handles[h].name)
                              => new = old

\* A Trace.method request for a pair that has a mapping and an interceptor
\* of its own reuses both, whether or not its handles have been disposed.
C19_RequestReuses ==
    (Len(handles') = Len(handles) + 1) =>
        LET h == Len(handles')
            o == handles'[h].object
            m == handles'[h].name
            old == objectTraces[o].methodMappings[m]
            new == objectTraces'[o].methodMappings[m]
        IN  /\ old.has =>
                  /\ new.originalMethod = old.originalMethod
                  /\ \A k \in Kinds :
                        Store(new, k) = IF k \in handles'[h].kinds
                                        THEN Append(Store(old, k), h)
                                        ELSE Store(old, k)
            /\ slot[o][m].fn = "icpt" => slot' = slot

\* A call through an interceptor all of whose handles have been disposed
\* reaches no listener, runs the original and ends as the original did.
C19_CallsAfterDisposal ==
    LET o == done.fn.object
        m == done.fn.name
    IN  (/\ ThroughInterceptor
         /\ HandlesOf(o, m) # {}
         /\ \A h \in HandlesOf(o, m) : handles[h].disposed) =>
            /\ slot[o][m] = done.fn
            /\ \A i \in DOMAIN Log : Log[i].e = "pub" => Log[i].subs = << >>
            /\ IF done.resumed
               THEN /\ Log[1].e = "await"
                    /\ done.value = Log[1].rec.value
                    /\ done.shape = IF Log[1].result = "return"
                                    THEN "fulfil" ELSE "reject"
               ELSE /\ Len(Log) >= 2
                    /\ Log[2].e = "orig" /\ Log[2].name = m
                    /\ \/ done.shape = "pending" /\ Log[2].result = "return"
                       \/ /\ done.value = Log[2].rec.value
                          /\ done.shape =
                                IF Log[2].result = "return" THEN "return"
                                ELSE IF done.fn.isAsync THEN "reject" ELSE "throw"

(***************************************************************************)
(* C19.  Disposing a handle changes only the listener sequences of the     *)
(* stores of its (object, method): the installed methods, the registry     *)
(* entries, the mappings and their originalMethod stay as they are, also   *)
(* when it was the last undisposed handle of the pair.  A later            *)
(* Trace.method request for the pair reuses the mapping and interceptor,   *)
(* and a call through the interceptor after all its handles were disposed  *)
(* still runs the original and ends with the original's result.            *)
(***************************************************************************)
C19_DisposalOnlyUnsubscribes ==
    /\ []C19_CallsAfterDisposal
    /\ [][C19_DisposeFrame /\ C19_RequestReuses]_vars

\* Two handles of (P, m1), both subscribed to every event type, have been
\* disposed, a third was requested and disposed too, and P.m1(1) has then
\* returned the value its original returned.
C19_Witness ==
    /\ ThroughInterceptor /\ done.target = "P" /\ ~done.fn.isAsync
    /\ Len(handles) = 3
    /\ \A h \in DOMAIN handles :
          /\ handles[h].object = "P" /\ handles[h].disposed
          /\ handles[h].kinds = Kinds
    /\ Len(Log) = 3 /\ Log[2].e = "orig" /\ Log[2].result = "return"
    /\ done.shape = "return" /\ done.value = "v"


\* An invocation through an interceptor ends as a promise (pending,
\* fulfilled, rejected) exactly when the interceptor is the asynchronous one.
C20_PathOfInterceptor ==
    ThroughInterceptor =>
        (done.shape \in {"pending", "fulfil", "reject"}) = done.fn.isAsync

\* The first request for a pair decides the path of o.m by its isAsync flag;
\* a later request for the pair and every other step leave it as it is.
C20_RequestStep ==
    IF Len(handles') = Len(handles) + 1
    THEN LET h == Len(handles')
             o == handles'[h].object
             m == handles'[h].name
         IN  IF HandlesOf(o, m) = {}
             THEN /\ GetProp(slot', o, m).fn = "icpt"
                  /\ GetProp(slot', o, m).isAsync = (<<o, m>> \in asyncRequested')
             ELSE slot' = slot
    ELSE slot' = slot

(***************************************************************************)
(* C20.  The path taken by invocations of a traced (o, m), synchronous or  *)
(* asynchronous, is the one named by the isAsync flag of the first         *)
(* Trace.method request for (o, m); later requests for the pair do not     *)
(* change the installed interceptor.                                       *)
(***************************************************************************)
C20_FirstRequestFixesPath == []C20_PathOfInterceptor /\ [][C20_RequestStep]_vars

\* The same, the first request being the one that finds o.m not yet wrapped.
C20_InstallingRequestStep ==
    IF Len(handles') = Len(handles) + 1
    THEN LET h == Len(handles')
             o == handles'[h].object
             m == handles'[h].name
         IN  IF ~GetProp(slot, o, m).isTraced
             THEN /\ slot'[o][m].fn = "icpt"
                  /\ slot'[o][m].isAsync = (<<o, m>> \in asyncRequested')
                  /\ HandlesOf(o, m) = {}
             ELSE slot' = slot
    ELSE slot' = slot

C20_InstallingRequestFixesPath ==
    []C20_PathOfInterceptor /\ [][C20_InstallingRequestStep]_vars

\* An observer registered with isAsync true on a pair whose interceptor is
\* synchronous was handed a finished record that carries the pending result.
C20_LaterFlagIgnored ==
    /\ ThroughInterceptor /\ ~done.fn.isAsync
    /\ <<done.fn.object, done.fn.name>> \in asyncRequested
    /\ \E i \in DOMAIN Log :
          IsPub(i, "finished") /\ Log[i].n >= 1 /\ Log[i].rec.value = "p"


(***************************************************************************)
(* C21.  When an onCalled listener throws while the call record is being   *)
(* published, the invocation ends there: the original method is not        *)
(* called, no finished record and no error record is published, and the    *)
(* listener's error reaches the caller, as a throw behind a synchronous    *)
(* interceptor and as a rejection behind an asynchronous one.              *)
(***************************************************************************)
C21_CallListenerErrorEndsInvocation ==
    ThroughInterceptor =>
        \A i \in DOMAIN Log : (IsPub(i, "call") /\ Log[i].threw) =>
            /\ i = 1 /\ Len(Log) = 1
            /\ \A j \in DOMAIN Log :
                  /\ Log[j].e \notin {"orig", "await"}
                  /\ ~IsPub(j, "finished") /\ ~IsPub(j, "error")
            /\ ~done.resumed
            /\ done.value = "le_call"
            /\ done.shape = IF done.fn.isAsync THEN "reject" ELSE "throw"

\* The second of three onCalled listeners threw: the first two were called,
\* and the caller of the synchronous interceptor got the listener's error.
C21_Witness ==
    /\ ThroughInterceptor /\ ~done.fn.isAsync
    /\ IsPub(1, "call") /\ Log[1].threw
    /\ Len(Log[1].subs) = 3 /\ Log[1].n = 2
    /\ done.shape = "throw"


(***************************************************************************)
(* filterAsync(values, callbackFn): an async function that goes through    *)
(* the values, awaits callbackFn(value) for each and keeps the value when  *)
(* the awaited result is truthy.  The callback returns a pending result    *)
(* that fulfils truthy or falsy or rejects, or it throws.                  *)
(***************************************************************************)
MaxLen == 3           \* the longest sequence of values passed to filterAsync

Elements == {"a", "b"}

FilterInputs == UNION {[1..n -> Elements] : n \in 0..MaxLen}

\* How the pending result returned by a callback settles.
CallbackSettlements == {"truthy", "falsy", "rejected"}

\* An event of one filterAsync activation: the callback started on the
\* element at index, its result settled, it threw, or the function returned.
FilterEvent(e, values, index, result, returns) ==
    [e |-> e, values |-> values, index |-> index,
     value |-> IF index \in DOMAIN values THEN values[index] ELSE "none",
     result |-> result, returns |-> returns]

\* The for loop from element k on, up to the next await or the end.
filterAsyncFrom(values, k, returns, log) ==
    IF k > Len(values)
    THEN {[shape |-> "fulfil", values |-> values, i |-> k, returns |-> returns,
           value |-> "none",
           log |-> Append(log, FilterEvent("result", values, 0, "none", returns))]}
    ELSE {[shape |-> "pending", values |-> values, i |-> k, returns |-> returns,
           value |-> "none",
           log |-> Append(log, FilterEvent("start", values, k, "none", << >>))],
          [shape |-> "reject", values |-> values, i |-> k, returns |-> returns,
           value |-> "thrown",
           log |-> log \o <<FilterEvent("start", values, k, "none", << >>),
                            FilterEvent("settle", values, k, "threw", << >>)>>]}

\* A resumption that takes a rejected result for a falsy one and goes on.
filterAsyncResumeCatching(x, s) ==
    filterAsyncFrom(x.values, x.i + 1,
        IF s = "truthy" THEN Append(x.returns, x.values[x.i]) ELSE x.returns,
        Append(x.log, FilterEvent("settle", x.values, x.i, s, << >>)))

\* The awaited result of activation x settled as s: a rejection ends the
\* function, a truthy result pushes the value, and the loop goes on.
filterAsyncResume(x, s) ==
    IF s = "rejected"
    THEN {[shape |-> "reject", values |-> x.values, i |-> x.i,
           returns |-> x.returns, value |-> "reason",
           log |-> Append(x.log, FilterEvent("settle", x.values, x.i, s, << >>))]}
    ELSE filterAsyncFrom(x.values, x.i + 1,
             IF s = "truthy" THEN Append(x.returns, x.values[x.i])
             ELSE x.returns,
             Append(x.log, FilterEvent("settle", x.values, x.i, s, << >>)))

\* Where an activation is after a run r: awaiting, or its promise settled.
FilterContinues(r, others) ==
    IF r.shape = "pending"
    THEN /\ inflight' = others (+) SetToBag({
                [name |-> "filterAsync", values |-> r.values, i |-> r.i,
                 returns |-> r.returns, log |-> r.log]})
         /\ UNCHANGED done
    ELSE /\ inflight' = others
         /\ done' = [NoDone EXCEPT !.name = "filterAsync", !.shape = r.shape,
                                   !.value = r.value,
                                   !.log = r.log, !.resumed = TRUE]

CallFilterAsync ==
    /\ done = NoDone
    /\ BagCardinality(inflight) < MaxInflight
    /\ \E values \in FilterInputs :
          \E r \in filterAsyncFrom(values, 1, << >>, << >>) :
              FilterContinues(r, inflight)
    /\ UNCHANGED <<slot, objectTraces, handles, asyncRequested>>

FilterSettle ==
    /\ done = NoDone
    /\ \E x \in BagToSet(inflight) : \E s \in CallbackSettlements :
          \E r \in filterAsyncResume(x, s) :
              FilterContinues(r, inflight (-) SetToBag({x}))
    /\ UNCHANGED <<slot, objectTraces, handles, asyncRequested>>

NextFilter == CallFilterAsync \/ FilterSettle \/ TakeResult

SpecFilter == Init /\ [][NextFilter]_vars

\* The callback events of a log: all but the closing "result" event.
CallbackEvents(log) == SelectSeq(log, LAMBDA ev : ev.e # "result")

\* Event 2k-1 is the start of the callback on element k and event 2k its
\* settlement; a callback starts only after the one before fulfilled.
OneAtATime(values, log) ==
    LET evs == CallbackEvents(log) IN
    \A j \in DOMAIN evs :
        /\ evs[j].index = (j + 1) \div 2
        /\ evs[j].index \in DOMAIN values
        /\ evs[j].value = values[evs[j].index]
        /\ evs[j].e = IF j % 2 = 1 THEN "start" ELSE "settle"
        /\ (j % 2 = 1 /\ j > 1) => evs[j - 1].result \in {"truthy", "falsy"}

\* The elements from index k on whose callback fulfilled truthy.
RECURSIVE KeptFrom(_, _, _)
KeptFrom(values, evs, k) ==
    IF k > Len(values) THEN << >>
    ELSE (IF evs[2 * k].result = "truthy" THEN <<values[k]>> ELSE << >>)
            \o KeptFrom(values, evs, k + 1)

(***************************************************************************)
(* C22.  filterAsync calls the callback on the elements one at a time in   *)
(* iteration order, each call only after the pending result of the one     *)
(* before has fulfilled.  When it fulfils, every element's callback has    *)
(* fulfilled and the result is the elements whose callback fulfilled       *)
(* truthy, in their original order.  When a callback rejects (or throws),  *)
(* filterAsync rejects with that reason (or the thrown error) and no       *)
(* callback has been called on a later element.                            *)
(***************************************************************************)
C22_SequentialFilter ==
    /\ \A x \in BagToSet(inflight) :
          /\ OneAtATime(x.values, x.log)
          /\ Len(x.log) = 2 * x.i - 1
    /\ done.name = "filterAsync" =>
          LET values == Log[1].values
              evs == CallbackEvents(Log)
          IN  /\ OneAtATime(values, Log)
              /\ IF done.shape = "fulfil"
                 THEN /\ Len(evs) = 2 * Len(values)
                      /\ Len(Log) = Len(evs) + 1
                      /\ Log[Len(Log)].e = "result"
                      /\ Log[Len(Log)].returns = KeptFrom(values, evs, 1)
                 ELSE /\ done.shape = "reject"
                      /\ Len(Log) = Len(evs) /\ Len(evs) % 2 = 0
                      /\ evs[Len(evs)].result \in {"rejected", "threw"}
                      /\ done.value = IF evs[Len(evs)].result = "rejected"
                                      THEN "reason" ELSE "thrown"
                      /\ \A j \in 1..(Len(evs) - 1) :
                            evs[j].result \notin {"rejected", "threw"}

\* filterAsync(["a", "b", "a"]) whose callback fulfilled truthy, falsy and
\* truthy has fulfilled with ["a", "a"].
C22_Witness ==
    /\ done.name = "filterAsync" /\ done.shape = "fulfil"
    /\ Log[1].values = <<"a", "b", "a">>
    /\ Log[2].result = "truthy" /\ Log[4].result = "falsy"
    /\ Log[6].result = "truthy"
    /\ Log[7].returns = <<"a", "a">>

=============================================================================
